---- MODULE Spec2Model ----
(***************************************************************************)
(* Model of the segment verification service of cmd/tools/segment-verify   *)
(* (process.go): Service.Verify, Service.VerifyBatches,                    *)
(* Service.convertAliasToNodeURL and Service.GetNodeInfo.                  *)
(*                                                                         *)
(* One service is driven by one caller.  A Verify call runs up to two      *)
(* VerifyBatches passes; every pass starts one task per batch through a    *)
(* limiter, each task calls the piece-check primitive and then reconciles  *)
(* the node health state (onlineNodes, offlineCount) under the mutex of    *)
(* that pass.  An error returned by Verify ends the run.                   *)
(*                                                                         *)
(* The ranged loop's source of segments (satellite/metabase/rangedloop,    *)
(* providerdb.go) is modelled next to it: MetabaseRangeSplitter.CreateRanges*)
(* and MetabaseSegmentProvider.Iterate, over a catalog that other writers  *)
(* change while providers scan it as of their timestamp.                   *)
(***************************************************************************)
EXTENDS Integers, Sequences, FiniteSets, TLC

\* ------------------------------------------------------------------ bounds
NumAliases == 2
MaxSegments == 2
MaxPieces == 2
MaxCheck == 1
MaxConcurrency == 2
MaxMaxOffline == 2
MaxPriority == 1
MaxCalls == 1
\* the identifier space of the catalog is 0..KeySpace-1
KeySpace == 4
MaxRanges == 3
\* the least number of ranges asked for
MinRanges == -1
MaxBatchSize == 2
MaxWrites == 1
\* objects live at 1..NumLocations (project, bucket and object key)
NumLocations == 1
MaxVersion == 1
\* the streams of the migration run are 0..NumStreams-1
NumStreams == 2
MaxPart == 1
MaxIndex == 1

Aliases == 1..NumAliases

\* ------------------------------------------------------- values and errors
\* an error value: its class and how often Error.Wrap wrapped it
NoErr == [class |-> "nil", wraps |-> 0]
\* ErrNodeOffline, the "node offline" class of the piece-check primitive
ErrNodeOffline == [class |-> "offline", wraps |-> 0]
\* any other error of the piece-check primitive
ErrOther == [class |-> "other", wraps |-> 0]
\* the error of a failed fetch of the latest alias table
ErrFetch == [class |-> "fetch", wraps |-> 0]
\* the error of a node directory lookup for an unknown node identifier
ErrNodeNotFound == [class |-> "notfound", wraps |-> 0]

\* Error.Wrap: nil stays nil, anything else is wrapped once more
Wrap(e) == IF e = NoErr THEN NoErr ELSE [e EXCEPT !.wraps = @ + 1]
\* ErrNodeOffline.Has(err)
HasOffline(e) == e.class = "offline"

\* storj.NodeID{} : the zero node identifier
ZeroID == 0
\* storj.NodeURL{} : the zero node URL
ZeroURL == [ID |-> ZeroID, Address |-> 0]
\* NodeInfo{} : the zero node info
ZeroInfo == [Version |-> 0, NodeURL |-> ZeroURL]

\* the node identifier the catalog assigns to an alias
NodeOf(a) == 10 + a
NodeIDs == {NodeOf(a) : a \in Aliases}
\* what the node directory (overlay) holds for a node identifier
DossierOf(id) == [Id |-> id, Address |-> 100 + id, Version |-> 200 + id]

VARIABLES
    config,          \* service.config: Check, Concurrency, MaxOffline
    priorityNodes,   \* service.priorityNodes
    onlineNodes,     \* service.onlineNodes
    offlineCount,    \* service.offlineCount
    aliasMap,        \* service.aliasMap, the locally held alias table
    aliasToNodeURL,  \* service.aliasToNodeURL, the node URL cache
    nodesVersionMap, \* service.nodesVersionMap, the version cache
    firstInfo,       \* history: what the first GetNodeInfo without error returned
    latestAliases,   \* the catalog's latest alias table (metabase)
    directory,       \* node identifiers the node directory (overlay) knows
    cancelled,       \* ctx of the run is cancelled
    pc,              \* position of the caller inside Verify / VerifyBatches
    pass,            \* number of VerifyBatches calls made by the current Verify
    segments,        \* the segments of the current Verify call
    batches,         \* the batches of the current VerifyBatches call
    idx,             \* index of the batch the VerifyBatches loop is at
    info,            \* NodeInfo resolved for the batch at idx
    tasks,           \* one record per batch: the goroutine started for it
    mu,              \* the mutex of the current VerifyBatches call: 0 or holder
    calls,           \* number of Verify calls made
    verifyErr,       \* the error returned by the last Verify call
    lastResolve,     \* history: the last GetNodeInfo call
    now,             \* time.Now()
    catalog,         \* catalog[t]: the stream ids of the segment table at time t
    created,         \* history: the CreateRanges call and what it returned
    rangeProviders,  \* the providers returned by CreateRanges
    iter,            \* one record per provider: its Iterate call
    objectsTable,    \* the rows of table objects
    segmentsTable,   \* the rows of table segments
    lastBegin        \* history: the last BeginSegment call

vars == <<config, priorityNodes, onlineNodes, offlineCount, aliasMap,
          aliasToNodeURL, nodesVersionMap, firstInfo, latestAliases, directory,
          cancelled, pc, pass, segments, batches, idx, info, tasks, mu,
          calls, verifyErr, lastResolve, now, catalog, created,
          rangeProviders, iter, objectsTable, segmentsTable, lastBegin>>

rangedVars == <<now, catalog, created, rangeProviders, iter>>

migrationVars == <<objectsTable, segmentsTable, lastBegin>>

serviceVars == <<config, priorityNodes>>
healthVars == <<onlineNodes, offlineCount>>
resolverVars == <<aliasMap, aliasToNodeURL, nodesVersionMap, firstInfo>>
externVars == <<latestAliases, directory>>
callVars == <<pc, pass, segments, batches, idx, info, tasks, mu, calls,
              verifyErr>>

\* ------------------------------------------------------------ sequences
RECURSIVE Reverse(_)
\* a retry that leaves the slice in the order it had
Reverse_Kept(s) == s

\* Verify lines 55-58: the slice with its elements in reverse order
Reverse(s) == IF s = <<>> THEN <<>> ELSE Append(Reverse(Tail(s)), Head(s))

\* the alias tables the catalog can hold: aliases are handed out in order
Table(k) == [a \in 1..k |-> NodeOf(a)]

\* piece lists of the input segments: distinct nodes, numbered from 0
PieceLists ==
    LET raw == UNION {[1..n -> Aliases] : n \in 0..MaxPieces}
        ok(s) == \A i, j \in DOMAIN s : i # j => s[i] # s[j]
    IN {[i \in DOMAIN s |-> [Number |-> i - 1, Alias |-> s[i]]] :
            s \in {t \in raw : ok(t)}}

\* a segment as read from the catalog, before Verify initialises its status
NewSegment(pieces) == [AliasPieces |-> pieces, Retry |-> 0]

SegmentLists ==
    UNION {[1..n -> {NewSegment(p) : p \in PieceLists}] : n \in 0..MaxSegments}

\* ------------------------------------------------------ alias resolution
\* overlay.Get: the dossier of a node, or an error for an unknown node
OverlayGet(dir, id) ==
    IF id \in dir THEN [err |-> NoErr, dossier |-> DossierOf(id)]
    ELSE [err |-> ErrNodeNotFound, dossier |-> DossierOf(ZeroID)]

\* metabase.LatestNodesAliasMap: the latest table, or an error
LatestNodesAliasMap(latest, fetchErr) ==
    IF fetchErr = NoErr THEN [err |-> NoErr, latest |-> latest]
    ELSE [err |-> fetchErr, latest |-> <<>>]

\* lines 141-156 of convertAliasToNodeURL: directory lookup and caching
LookupAndCache(alias, nodeID, amap, urls, versions, dir, fetches) ==
    LET got == OverlayGet(dir, nodeID)
        nodeURL == [ID |-> got.dossier.Id, Address |-> got.dossier.Address]
    IN IF got.err # NoErr
       THEN [url |-> ZeroURL, err |-> Wrap(got.err), aliasMap |-> amap,
             urls |-> urls, versions |-> versions,
             fetches |-> fetches, lookups |-> 1]
       ELSE [url |-> nodeURL, err |-> NoErr, aliasMap |-> amap,
             urls |-> (alias :> nodeURL) @@ urls,
             versions |-> (alias :> got.dossier.Version) @@ versions,
             fetches |-> fetches, lookups |-> 1]

\* a resolver that never finds an alias in its cache
Cached_Never(urls, alias) == FALSE

\* convertAliasToNodeURL lines 125-126: the alias is in the node URL cache
Cached(urls, alias) == alias \in DOMAIN urls

\* Service.convertAliasToNodeURL.  ok is the result of the lookup in the
\* local table (line 127); line 130 tests that same ok again.
convertAliasToNodeURL(alias, amap, urls, versions, latest, dir, fetchErr) ==
    IF Cached(urls, alias)
    THEN [url |-> urls[alias], err |-> NoErr, aliasMap |-> amap,
          urls |-> urls, versions |-> versions, fetches |-> 0, lookups |-> 0]
    ELSE
      LET ok == alias \in DOMAIN amap
      IN IF ok
         THEN LookupAndCache(alias, amap[alias], amap, urls, versions, dir, 0)
         ELSE
           LET fetched == LatestNodesAliasMap(latest, fetchErr)
           IN IF ~ok
              THEN [url |-> ZeroURL, err |-> Wrap(fetched.err),
                    aliasMap |-> amap, urls |-> urls, versions |-> versions,
                    fetches |-> 1, lookups |-> 0]
              ELSE IF alias \notin DOMAIN fetched.latest
                   THEN [url |-> ZeroURL, err |-> Wrap(fetched.err),
                         aliasMap |-> fetched.latest, urls |-> urls,
                         versions |-> versions, fetches |-> 1, lookups |-> 0]
                   ELSE LookupAndCache(alias, fetched.latest[alias],
                                       fetched.latest, urls, versions, dir, 1)

\* Service.GetNodeInfo
GetNodeInfo(alias, amap, urls, versions, latest, dir, fetchErr) ==
    LET c == convertAliasToNodeURL(alias, amap, urls, versions, latest, dir,
                                   fetchErr)
    IN IF c.err # NoErr
       THEN [info |-> ZeroInfo, err |-> Wrap(c.err), conv |-> c,
             aliasMap |-> c.aliasMap, urls |-> c.urls, versions |-> c.versions,
             fetches |-> c.fetches, lookups |-> c.lookups]
       ELSE IF alias \in DOMAIN c.versions
            THEN [info |-> [Version |-> c.versions[alias], NodeURL |-> c.url],
                  err |-> NoErr, conv |-> c,
                  aliasMap |-> c.aliasMap, urls |-> c.urls,
                  versions |-> c.versions,
                  fetches |-> c.fetches, lookups |-> c.lookups]
            ELSE LET got == OverlayGet(dir, c.url.ID)
                 IN IF got.err # NoErr
                    THEN [info |-> ZeroInfo, err |-> Wrap(got.err), conv |-> c,
                          aliasMap |-> c.aliasMap, urls |-> c.urls,
                          versions |-> c.versions,
                          fetches |-> c.fetches, lookups |-> c.lookups + 1]
                    ELSE [info |-> [Version |-> got.dossier.Version,
                                    NodeURL |-> c.url],
                          err |-> NoErr, conv |-> c,
                          aliasMap |-> c.aliasMap, urls |-> c.urls,
                          versions |-> (alias :> got.dossier.Version) @@ c.versions,
                          fetches |-> c.fetches, lookups |-> c.lookups + 1]

\* ------------------------------------------------------------- batching
RECURSIVE Flatten(_, _)
\* the (segment, alias) pairs of the segments named by order, in traversal order
Flatten(segs, order) ==
    IF order = <<>> THEN <<>>
    ELSE LET i == Head(order)
             ps == segs[i].AliasPieces
         IN [k \in DOMAIN ps |-> [seg |-> i, alias |-> ps[k].Alias]]
            \o Flatten(segs, Tail(order))

\* append one item to the batch of its alias, creating the batch on first sight
AddToBatches(bs, item) ==
    IF \E j \in DOMAIN bs : bs[j].Alias = item.alias
    THEN [j \in DOMAIN bs |->
            IF bs[j].Alias = item.alias
            THEN [bs[j] EXCEPT !.Items = Append(@, item.seg)]
            ELSE bs[j]]
    ELSE Append(bs, [Alias |-> item.alias, Items |-> <<item.seg>>])

RECURSIVE GroupItems(_, _)
GroupItems(bs, items) ==
    IF items = <<>> THEN bs
    ELSE GroupItems(AddToBatches(bs, Head(items)), Tail(items))

\* Service.CreateBatches: one batch per node alias, in order of first occurrence
CreateBatches(segs, order) == GroupItems(<<>>, Flatten(segs, order))

RECURSIVE FilterPieces(_, _)
FilterPieces(ps, prio) ==
    IF ps = <<>> THEN <<>>
    ELSE IF Head(ps).Alias \in prio THEN FilterPieces(Tail(ps), prio)
         ELSE <<Head(ps)>> \o FilterPieces(Tail(ps), prio)

\* Service.removePriorityPieces: drop the pieces held by priority nodes
removePriorityPieces(seg, prio) ==
    [seg EXCEPT !.AliasPieces = FilterPieces(@, prio)]

RECURSIVE RetryOrder(_, _)
\* Verify lines 39-44: the segments whose Status.Retry is still positive
RetryOrder(segs, i) ==
    IF i > Len(segs) THEN <<>>
    ELSE IF segs[i].Retry > 0 THEN <<i>> \o RetryOrder(segs, i + 1)
         ELSE RetryOrder(segs, i + 1)

\* Verify lines 21-27: the retry budget of a segment
InitRetry(seg, check) ==
    [seg EXCEPT !.Retry = IF check = 0 THEN Len(seg.AliasPieces) ELSE check]

\* Verify lines 54-61: reverse the pieces and drop those of priority nodes
PrepareRetry(seg, prio) ==
    removePriorityPieces([seg EXCEPT !.AliasPieces = Reverse(@)], prio)

\* a Verify that goes on to another pass after its second one
IsLastPass_Third(p) == p = 3

\* Verify has two VerifyBatches calls, lines 34 and 68; after the second it returns
IsLastPass(p) == p = 2

\* ---------------------------------------------------------------- limiter
\* a goroutine of a pass: its position, what verifier.Verify returned to it and
\* the strike counter of its node as it found it inside the critical section
NoTask == [pc |-> "none", err |-> NoErr, verifiedCount |-> 0, prior |-> 0]

\* the goroutines of the limiter that have started and not yet finished
Running == {i \in DOMAIN tasks : tasks[i].pc \in {"verify", "lock", "locked"}}

\* a limiter that lets one goroutine too many start
LimiterHasSlot_OffByOne(running, limit) == running <= limit

\* sync2.Limiter.Go: a goroutine starts only while a slot is free
LimiterHasSlot(running, limit) == running < limit

\* a reconciliation that does not wait for the mutex
MutexFree_NoLock(m) == TRUE

\* sync.Mutex.Lock proceeds only while nobody holds the mutex
MutexFree(m) == m = 0

\* --------------------------------------------------- health reconciliation
\* NodeAliasSet.Remove, lines 99 and 103
Remove(set, alias) == set \ {alias}

\* a reconciliation that gives a silent node strikes like any other
OfflineReconcile_StrikeOnly(online, count, alias, verifiedCount, maxOffline) ==
    LET inc == [count EXCEPT ![alias] = @ + 1]
    IN IF maxOffline > 0 /\ inc[alias] >= maxOffline
       THEN [online |-> Remove(online, alias), count |-> inc]
       ELSE [online |-> online, count |-> inc]

\* a reconciliation that tolerates one strike more than configured
OfflineReconcile_Late(online, count, alias, verifiedCount, maxOffline) ==
    IF verifiedCount = 0
    THEN [online |-> Remove(online, alias), count |-> count]
    ELSE LET inc == [count EXCEPT ![alias] = @ + 1]
         IN IF maxOffline > 0 /\ inc[alias] > maxOffline
            THEN [online |-> Remove(online, alias), count |-> inc]
            ELSE [online |-> online, count |-> inc]

\* a reconciliation that takes a node which answered for some pieces, and
\* stays below the maximum, back into the online set
OfflineReconcile_Revives(online, count, alias, verifiedCount, maxOffline) ==
    IF verifiedCount = 0
    THEN [online |-> Remove(online, alias), count |-> count]
    ELSE LET inc == [count EXCEPT ![alias] = @ + 1]
         IN IF maxOffline > 0 /\ inc[alias] >= maxOffline
            THEN [online |-> Remove(online, alias), count |-> inc]
            ELSE [online |-> online \cup {alias}, count |-> inc]

\* VerifyBatches lines 98-105: an offline-class error of the piece check
OfflineReconcile(online, count, alias, verifiedCount, maxOffline) ==
    IF verifiedCount = 0
    THEN [online |-> Remove(online, alias), count |-> count]
    ELSE LET inc == [count EXCEPT ![alias] = @ + 1]
         IN IF maxOffline > 0 /\ inc[alias] >= maxOffline
            THEN [online |-> Remove(online, alias), count |-> inc]
            ELSE [online |-> online, count |-> inc]

\* a reconciliation that decrements without looking at the counter
SuccessReconcile_Unguarded(count, alias) == [count EXCEPT ![alias] = @ - 1]

\* VerifyBatches lines 111-113: the piece check returned without error
SuccessReconcile(count, alias) ==
    IF count[alias] > 0 THEN [count EXCEPT ![alias] = @ - 1] ELSE count

\* an error branch that takes a strike off like a success does
LoggedOnly_Decays(count, alias) ==
    IF count[alias] > 0 THEN [count EXCEPT ![alias] = @ - 1] ELSE count

\* an error branch that adds a strike like an offline error does
LoggedOnly_Strikes(count, alias) == [count EXCEPT ![alias] = @ + 1]

\* VerifyBatches lines 95-108: the strike counters after a piece check that
\* returned an error outside the offline class, which is logged and nothing else
LoggedOnly(count, alias) == count

\* a loop that goes on with the batch whatever GetNodeInfo returned
ResolveAborts_Never(err) == FALSE

\* VerifyBatches lines 87-89: an error of GetNodeInfo ends the call
ResolveAborts(err) == err # NoErr

\* ------------------------------------------------------------------- Init
\* history of a GetNodeInfo call: what held before it and what it returned
NoResolve == [alias |-> 0]
Resolved(alias, fetchErr, r) ==
    [alias |-> alias,
     cached |-> alias \in DOMAIN aliasToNodeURL,
     versioned |-> alias \in DOMAIN nodesVersionMap,
     local |-> alias \in DOMAIN aliasMap,
     inLatest |-> alias \in DOMAIN latestAliases,
     inDirectory |-> NodeOf(alias) \in directory,
     refreshed |-> r.aliasMap = latestAliases,
     fetchErr |-> fetchErr,
     convURL |-> r.conv.url, convErr |-> r.conv.err,
     info |-> r.info, err |-> r.err,
     fetches |-> r.fetches, lookups |-> r.lookups]

\* the history of first answers after GetNodeInfo returned r for the alias
Remember(first, alias, r) ==
    IF r.err = NoErr /\ first[alias] = ZeroInfo
    THEN [first EXCEPT ![alias] = r.info]
    ELSE first

\* ------------------------------------------------------- the ranged loop
\* context.Canceled, the error of a cancelled context
ErrCanceled == [class |-> "canceled", wraps |-> 0]
\* an error returned by the callback fn of Iterate
ErrOnBatch == [class |-> "onbatch", wraps |-> 0]
\* the error of CreateUUIDRanges for zero ranges
ErrNoRanges == [class |-> "ranges", wraps |-> 0]

\* uuid.UUID{} : the zero stream id
ZeroUUID == 0
\* the stream ids of the identifier space
StreamIDs == 0..(KeySpace - 1)
\* a nil *uuid.UUID and a pointer to the stream id v
Nil == <<>>
Ptr(v) == <<v>>

\* CreateRanges line 41, uint32(nRanges): the low 32 bits of the int, kept as
\* two halves of 16 bits
Uint32(n) == [hi |-> (n \div 65536) % 65536, lo |-> n % 65536]
\* the number a uint32 stands for
Uint32Value(u) == u.hi * 65536 + u.lo

\* how many ranges of a result the model holds: all of them up to MaxRanges,
\* and the first MaxRanges of a longer result, which count keeps the length of
HeldRanges(u) ==
    IF u.hi = 0 /\ u.lo <= MaxRanges THEN Uint32Value(u) ELSE MaxRanges

\* the width of one of u ranges; the identifier space has more ids than a
\* uint32 has values, so that the width is never zero
RangeWidth(u) ==
    IF u.hi = 0 /\ u.lo <= KeySpace THEN KeySpace \div Uint32Value(u) ELSE 1

\* CreateUUIDRanges: an error for zero ranges, else count contiguous ranges of
\* about equal width over the whole identifier space, the first without a
\* start and the last without an end
CreateUUIDRanges(u) ==
    IF u = Uint32(0)
    THEN [err |-> ErrNoRanges, count |-> u, ranges |-> <<>>]
    ELSE LET increment == RangeWidth(u)
         IN [err |-> NoErr,
             count |-> u,
             ranges |-> [i \in 1..HeldRanges(u) |->
                 [Start |-> IF i = 1 THEN Nil ELSE Ptr((i - 1) * increment),
                  End |-> IF u.hi = 0 /\ i = u.lo THEN Nil
                                                 ELSE Ptr(i * increment)]]]

\* a splitter that appends the provider of the last range first
CreateRanges_Backwards(nRanges, batchSize, clock) ==
    LET r == CreateUUIDRanges(Uint32(nRanges))
    IN IF r.err # NoErr
       THEN [providers |-> <<>>, count |-> Uint32(0), err |-> r.err]
       ELSE [providers |->
                [i \in DOMAIN r.ranges |->
                    [uuidRange |-> r.ranges[Len(r.ranges) + 1 - i],
                     asOfSystemTime |-> clock,
                     batchSize |-> batchSize]],
             count |-> r.count,
             err |-> r.err]

\* MetabaseRangeSplitter.CreateRanges at the time clock: one provider per
\* range, all with the time read at line 46
CreateRanges(nRanges, batchSize, clock) ==
    LET r == CreateUUIDRanges(Uint32(nRanges))
    IN IF r.err # NoErr
       THEN [providers |-> <<>>, count |-> Uint32(0), err |-> r.err]
       ELSE [providers |->
                [i \in DOMAIN r.ranges |->
                    [uuidRange |-> r.ranges[i],
                     asOfSystemTime |-> clock,
                     batchSize |-> batchSize]],
             count |-> r.count,
             err |-> r.err]

\* options that ask for the catalog one tick after the provider's timestamp
IterateOptions_Later(provider) ==
    [BatchSize |-> provider.batchSize,
     AsOfSystemTime |-> provider.asOfSystemTime + 1,
     StartStreamID |-> IF provider.uuidRange.Start # Nil
                       THEN provider.uuidRange.Start[1] ELSE ZeroUUID,
     EndStreamID |-> IF provider.uuidRange.End # Nil
                     THEN provider.uuidRange.End[1] ELSE ZeroUUID]

\* Iterate lines 63-78: the options handed to IterateLoopSegments; a nil bound
\* becomes the zero stream id
IterateOptions(provider) ==
    [BatchSize |-> provider.batchSize,
     AsOfSystemTime |-> provider.asOfSystemTime,
     StartStreamID |-> IF provider.uuidRange.Start # Nil
                       THEN provider.uuidRange.Start[1] ELSE ZeroUUID,
     EndStreamID |-> IF provider.uuidRange.End # Nil
                     THEN provider.uuidRange.End[1] ELSE ZeroUUID]

RECURSIVE InKeyOrder(_)
\* the stream ids of a set in ascending order
InKeyOrder(S) ==
    IF S = {} THEN <<>>
    ELSE LET m == CHOOSE x \in S : \A y \in S : x <= y
         IN <<m>> \o InKeyOrder(S \ {m})

\* the rows of the catalog cat as of the time t; a time the catalog has no
\* version for reads the latest version
RowsAsOf(cat, t) == IF t >= 1 /\ t <= Len(cat) THEN cat[t] ELSE cat[Len(cat)]

\* metabase.DB.IterateLoopSegments: the rows the iterator yields, in key order,
\* from the start bound up to the end bound; a zero end bound is no bound
IterateLoopSegments(cat, opts) ==
    InKeyOrder({k \in RowsAsOf(cat, opts.AsOfSystemTime) :
                   /\ k >= opts.StartStreamID
                   /\ opts.EndStreamID = ZeroUUID \/ k < opts.EndStreamID})

\* what IterateLoopSegments returns: the callback's error, else the scan's own
Combine(cbErr, scanErr) == IF cbErr # NoErr THEN cbErr ELSE scanErr

\* a batch that is sent only once it holds more than batchSize rows
BatchFull_Over(len, batchSize) == len > batchSize

\* Iterate line 90: the accumulated rows make a full batch
BatchFull(len, batchSize) == len >= batchSize

\* a loop that goes on after the callback failed
AbortsOnBatch_Never(err) == FALSE

\* Iterate lines 92-94: an error of the callback ends the loop
AbortsOnBatch(err) == err # NoErr

\* no options: Iterate has not been called
NoOptions ==
    [BatchSize |-> 0, AsOfSystemTime |-> 0, StartStreamID |-> ZeroUUID,
     EndStreamID |-> ZeroUUID]

\* the Iterate call of a provider before it is made.  rows: what the iterator
\* has left; segments: the slice being filled; delivered: the batches passed
\* to fn so far; failedAt: the fn call that returned an error (0: none);
\* interrupted: the context was cancelled during the call; lateCall: fn was
\* called with the context already cancelled
NoIterate ==
    [pc |-> "idle", opts |-> NoOptions, rows |-> <<>>, segments |-> <<>>,
     delivered |-> <<>>, err |-> NoErr, failedAt |-> 0,
     interrupted |-> FALSE, lateCall |-> FALSE]

\* Iterate lines 91 and 102, fn(segments), returning fnErr
CallFn(it, ctxDone, fnErr) ==
    [it EXCEPT !.delivered = Append(@, it.segments),
               !.lateCall = @ \/ ctxDone,
               !.failedAt = IF fnErr # NoErr THEN Len(it.delivered) + 1 ELSE @]

\* no CreateRanges call has been made
NoCall ==
    [nRanges |-> 0, batchSize |-> 0, at |-> 0, count |-> Uint32(0),
     err |-> NoErr]

\* no BeginSegment call has been made
NoBegin ==
    [n |-> 0, Location |-> 0, StreamID |-> 0,
     SegmentPosition |-> [Part |-> 0, Segment |-> 0], err |-> NoErr]

\* a run that does not use the migration metabase
NoMigration ==
    /\ objectsTable = {}
    /\ segmentsTable = {}
    /\ lastBegin = NoBegin

\* a run that does not use the ranged loop
NoRangedLoop ==
    /\ now = 1
    /\ catalog = <<{}>>
    /\ created = NoCall
    /\ rangeProviders = <<>>
    /\ iter = <<>>

Init ==
    /\ config \in [Check : 0..MaxCheck, Concurrency : 1..MaxConcurrency,
                   MaxOffline : 0..MaxMaxOffline]
    /\ priorityNodes \in SUBSET (1..MaxPriority)
    /\ onlineNodes = Aliases
    /\ offlineCount = [a \in Aliases |-> 0]
    /\ aliasMap \in {Table(k) : k \in (NumAliases - 1)..NumAliases}
    /\ aliasToNodeURL = <<>>
    /\ nodesVersionMap = <<>>
    /\ firstInfo = [a \in Aliases |-> ZeroInfo]
    /\ latestAliases = Table(NumAliases)
    /\ directory = NodeIDs
    /\ cancelled = FALSE
    /\ pc = "idle"
    /\ pass = 0
    /\ segments = <<>>
    /\ batches = <<>>
    /\ idx = 1
    /\ info = ZeroInfo
    /\ tasks = <<>>
    /\ mu = 0
    /\ calls = 0
    /\ verifyErr = NoErr
    /\ lastResolve = NoResolve
    /\ NoRangedLoop
    /\ NoMigration

\* ---------------------------------------------------------------- actions
\* a loop that enters its body whatever the number of batches
LoopAt_NoBound(bs, i) == "resolve"

\* the position of the VerifyBatches loop at batch i of bs
LoopAt(bs, i) == IF i > Len(bs) THEN "wait" ELSE "resolve"

\* VerifyBatches line 80-82 for the batches bs: a new mutex and a new limiter
StartBatches(bs) ==
    /\ batches' = bs
    /\ idx' = 1
    /\ info' = ZeroInfo
    /\ tasks' = [i \in DOMAIN bs |-> NoTask]
    /\ mu' = 0
    /\ pc' = LoopAt(bs, 1)

\* Verify lines 18-34: set the retry budgets, batch, enter the first pass
VerifyCall(segs) ==
    /\ pc = "idle"
    /\ Running = {}
    /\ calls < MaxCalls
    /\ calls' = calls + 1
    /\ LET inited == [i \in DOMAIN segs |-> InitRetry(segs[i], config.Check)]
       IN /\ segments' = inited
          /\ StartBatches(CreateBatches(inited, [i \in DOMAIN segs |-> i]))
    /\ pass' = 1
    /\ verifyErr' = NoErr
    /\ UNCHANGED <<migrationVars, rangedVars, serviceVars, healthVars, resolverVars, externVars,
                   cancelled, lastResolve>>

\* VerifyBatches lines 86-91 for the batch at idx; an error returns from
\* VerifyBatches (line 88) and from Verify (lines 36, 70)
Resolve(fetchErr) ==
    /\ pc = "resolve"
    /\ LET r == GetNodeInfo(batches[idx].Alias, aliasMap, aliasToNodeURL,
                            nodesVersionMap, latestAliases, directory, fetchErr)
       IN /\ aliasMap' = r.aliasMap
          /\ aliasToNodeURL' = r.urls
          /\ nodesVersionMap' = r.versions
          /\ firstInfo' = Remember(firstInfo, batches[idx].Alias, r)
          /\ lastResolve' = Resolved(batches[idx].Alias, fetchErr, r)
          /\ IF ResolveAborts(r.err)
             THEN /\ pc' = "failed"
                  /\ verifyErr' = Wrap(Wrap(r.err))
                  /\ info' = info
             ELSE /\ pc' = "go"
                  /\ verifyErr' = verifyErr
                  /\ info' = r.info
    /\ UNCHANGED <<migrationVars, rangedVars, serviceVars, healthVars, externVars, cancelled, pass,
                   segments, batches, idx, tasks, mu, calls>>

\* VerifyBatches line 93, limiter.Go: start the task of the batch at idx once
\* a slot is free, or drop it when the context is cancelled
LimiterGo ==
    /\ pc = "go"
    /\ IF cancelled
       THEN tasks' = [tasks EXCEPT ![idx].pc = "skipped"]
       ELSE /\ LimiterHasSlot(Cardinality(Running), config.Concurrency)
            /\ tasks' = [tasks EXCEPT ![idx].pc = "verify"]
    /\ idx' = idx + 1
    /\ pc' = LoopAt(batches, idx + 1)
    /\ UNCHANGED <<migrationVars, rangedVars, serviceVars, healthVars, resolverVars, externVars,
                   cancelled, pass, segments, batches, info, mu, calls,
                   verifyErr, lastResolve>>

\* the segments after the first k items of a batch have been found
MarkFound(segs, items, k) ==
    [s \in DOMAIN segs |->
        [segs[s] EXCEPT !.Retry =
            @ - Cardinality({j \in 1..k : items[j] = s})]]

\* VerifyBatches line 94: verifier.Verify of task i returns k verified pieces
\* and error e, in any combination; any error other than an offline one is
\* only logged (line 108)
TaskVerifyReturn(i, k, e) ==
    /\ i \in DOMAIN tasks
    /\ tasks[i].pc = "verify"
    /\ k \in 0..Len(batches[i].Items)
    /\ (HasOffline(e) /\ k > 0) => offlineCount[batches[i].Alias] < MaxMaxOffline
    /\ segments' = MarkFound(segments, batches[i].Items, k)
    /\ tasks' = [tasks EXCEPT ![i] =
                    [pc |-> IF e = NoErr \/ HasOffline(e) THEN "lock" ELSE "done",
                     err |-> e, verifiedCount |-> k, prior |-> 0]]
    /\ offlineCount' = IF e = NoErr \/ HasOffline(e)
                       THEN offlineCount
                       ELSE LoggedOnly(offlineCount, batches[i].Alias)
    /\ UNCHANGED <<migrationVars, rangedVars, serviceVars, onlineNodes, resolverVars, externVars,
                   cancelled, pc, pass, batches, idx, info, mu, calls,
                   verifyErr, lastResolve>>

\* a goroutine that ends without releasing the mutex
Unlocked_Kept(holder) == holder

\* VerifyBatches lines 106 and 114, mu.Unlock(): the mutex after its holder
\* released it
Unlocked(holder) == 0

\* VerifyBatches lines 97 and 110: mu.Lock()
TaskLock(i) ==
    /\ i \in DOMAIN tasks
    /\ tasks[i].pc = "lock"
    /\ MutexFree(mu)
    /\ mu' = i
    /\ tasks' = [tasks EXCEPT ![i].pc = "locked"]
    /\ UNCHANGED <<migrationVars, rangedVars, serviceVars, healthVars, resolverVars, externVars,
                   cancelled, pc, pass, segments, batches, idx, info, calls,
                   verifyErr, lastResolve>>

\* VerifyBatches lines 98-108: reconcile an offline error, unlock, log
TaskOfflineUpdate(i) ==
    /\ i \in DOMAIN tasks
    /\ tasks[i].pc = "locked"
    /\ HasOffline(tasks[i].err)
    /\ LET r == OfflineReconcile(onlineNodes, offlineCount, batches[i].Alias,
                                 tasks[i].verifiedCount, config.MaxOffline)
       IN /\ onlineNodes' = r.online
          /\ offlineCount' = r.count
    /\ mu' = Unlocked(mu)
    /\ tasks' = [tasks EXCEPT ![i].pc = "done",
                              ![i].prior = offlineCount[batches[i].Alias]]
    /\ UNCHANGED <<migrationVars, rangedVars, serviceVars, resolverVars, externVars, cancelled, pc, pass,
                   segments, batches, idx, info, calls, verifyErr, lastResolve>>

\* VerifyBatches lines 110-114: reconcile a success, unlock
TaskSuccessUpdate(i) ==
    /\ i \in DOMAIN tasks
    /\ tasks[i].pc = "locked"
    /\ tasks[i].err = NoErr
    /\ offlineCount' = SuccessReconcile(offlineCount, batches[i].Alias)
    /\ mu' = Unlocked(mu)
    /\ tasks' = [tasks EXCEPT ![i].pc = "done",
                              ![i].prior = offlineCount[batches[i].Alias]]
    /\ UNCHANGED <<migrationVars, rangedVars, serviceVars, onlineNodes, resolverVars, externVars,
                   cancelled, pc, pass, segments, batches, idx, info, calls,
                   verifyErr, lastResolve>>

\* a pass that returns without waiting for its goroutines
LimiterIdle_NoWait(running) == TRUE

\* VerifyBatches line 118, limiter.Wait(): every goroutine of the limiter has
\* ended
LimiterIdle(running) == running = {}

\* a pass that returns an error of one of its goroutines
VerifyBatchesResult_TaskErr(ts) ==
    IF \E i \in DOMAIN ts : ts[i].err # NoErr THEN ErrOther ELSE NoErr

\* VerifyBatches line 120: what a pass returns once its goroutines ts have
\* joined, whatever errors they have met
VerifyBatchesResult(ts) == NoErr

\* VerifyBatches lines 118-120, limiter.Wait, and then Verify lines 35-66 after
\* the first pass or line 69-73 after the second
WaitReturn ==
    /\ pc = "wait"
    /\ LimiterIdle(Running)
    /\ LET err == VerifyBatchesResult(tasks)
           retry == RetryOrder(segments, 1)
       IN IF err # NoErr
          THEN /\ pc' = "failed"
               /\ verifyErr' = Wrap(err)
               /\ UNCHANGED <<pass, segments, batches, idx, info, tasks, mu>>
          ELSE /\ verifyErr' = NoErr
               /\ IF IsLastPass(pass) \/ retry = <<>> \/ config.Check <= 0
                  THEN /\ pc' = "idle"
                       /\ UNCHANGED <<pass, segments, batches, idx, info,
                                      tasks, mu>>
                  ELSE LET prepared ==
                               [s \in DOMAIN segments |->
                                   IF \E j \in DOMAIN retry : retry[j] = s
                                   THEN PrepareRetry(segments[s], priorityNodes)
                                   ELSE segments[s]]
                       IN /\ segments' = prepared
                          /\ StartBatches(CreateBatches(prepared, retry))
                          /\ pass' = pass + 1
    /\ UNCHANGED <<migrationVars, rangedVars, serviceVars, healthVars, resolverVars, externVars,
                   cancelled, calls, lastResolve>>

\* the context of the run is cancelled; limiter.Go is the only reader of the
\* context in VerifyBatches, so the cancellation takes effect where Go reads it
Cancel ==
    /\ ~cancelled
    /\ pc = "go"
    /\ cancelled' = TRUE
    /\ UNCHANGED <<migrationVars, rangedVars, serviceVars, healthVars, resolverVars, externVars,
                   callVars, lastResolve>>

Next ==
    \/ \E segs \in SegmentLists : VerifyCall(segs)
    \/ \E fetchErr \in {NoErr, ErrFetch} : Resolve(fetchErr)
    \/ LimiterGo
    \/ \E i \in DOMAIN tasks :
          \E k \in 0..Len(batches[i].Items),
             e \in {NoErr, ErrNodeOffline, ErrOther} : TaskVerifyReturn(i, k, e)
    \/ \E i \in DOMAIN tasks : TaskLock(i)
    \/ \E i \in DOMAIN tasks : TaskOfflineUpdate(i)
    \/ \E i \in DOMAIN tasks : TaskSuccessUpdate(i)
    \/ WaitReturn
    \/ Cancel

Spec == Init /\ [][Next]_vars

\* ------------------------------------------- the resolver on its own
\* A service whose caller resolves aliases one call after another, against
\* every alias table and node directory of the bounds.
InitResolve ==
    /\ config = [Check |-> 0, Concurrency |-> 1, MaxOffline |-> 0]
    /\ priorityNodes = {}
    /\ onlineNodes = Aliases
    /\ offlineCount = [a \in Aliases |-> 0]
    /\ \E kl \in 0..NumAliases, kc \in 0..NumAliases :
          /\ kl <= kc
          /\ aliasMap = Table(kl)
          /\ latestAliases = Table(kc)
    /\ aliasToNodeURL = <<>>
    /\ nodesVersionMap = <<>>
    /\ firstInfo = [a \in Aliases |-> ZeroInfo]
    /\ directory \in SUBSET NodeIDs
    /\ cancelled = FALSE
    /\ pc = "idle"
    /\ pass = 0
    /\ segments = <<>>
    /\ batches = <<>>
    /\ idx = 1
    /\ info = ZeroInfo
    /\ tasks = <<>>
    /\ mu = 0
    /\ calls = 0
    /\ verifyErr = NoErr
    /\ lastResolve = NoResolve
    /\ NoRangedLoop
    /\ NoMigration

\* a call of Service.GetNodeInfo
ResolveCall(alias, fetchErr) ==
    /\ pc = "idle"
    /\ LET r == GetNodeInfo(alias, aliasMap, aliasToNodeURL, nodesVersionMap,
                            latestAliases, directory, fetchErr)
       IN /\ aliasMap' = r.aliasMap
          /\ aliasToNodeURL' = r.urls
          /\ nodesVersionMap' = r.versions
          /\ firstInfo' = Remember(firstInfo, alias, r)
          /\ info' = r.info
          /\ lastResolve' = Resolved(alias, fetchErr, r)
    /\ UNCHANGED <<migrationVars, rangedVars, serviceVars, healthVars, externVars, cancelled, pc, pass,
                   segments, batches, idx, tasks, mu, calls, verifyErr>>

\* another writer makes the catalog hand out the next alias
CatalogAssign ==
    /\ Len(latestAliases) < NumAliases
    /\ latestAliases' = Table(Len(latestAliases) + 1)
    /\ UNCHANGED <<migrationVars, rangedVars, serviceVars, healthVars, resolverVars, directory, cancelled,
                   callVars, lastResolve>>

\* the node directory loses the node id
DirectoryForget(id) ==
    /\ id \in directory
    /\ directory' = directory \ {id}
    /\ UNCHANGED <<migrationVars, rangedVars, serviceVars, healthVars,
                   resolverVars, latestAliases, cancelled, callVars,
                   lastResolve>>

NextResolve ==
    \/ \E alias \in Aliases, fetchErr \in {NoErr, ErrFetch} :
          ResolveCall(alias, fetchErr)
    \/ CatalogAssign
    \/ \E id \in NodeIDs : DirectoryForget(id)

SpecResolve == InitResolve /\ [][NextResolve]_vars

\* -------------------------------------------- the ranged loop on its own
\* A catalog of any rows, one CreateRanges call, and the Iterate calls of its
\* providers, side by side, while other writers change the catalog and the
\* context of the run may be cancelled.
verifyVars == <<serviceVars, healthVars, resolverVars, externVars, callVars,
                lastResolve>>

InitRanged ==
    /\ config = [Check |-> 0, Concurrency |-> 1, MaxOffline |-> 0]
    /\ priorityNodes = {}
    /\ onlineNodes = Aliases
    /\ offlineCount = [a \in Aliases |-> 0]
    /\ aliasMap = Table(NumAliases)
    /\ latestAliases = Table(NumAliases)
    /\ aliasToNodeURL = <<>>
    /\ nodesVersionMap = <<>>
    /\ firstInfo = [a \in Aliases |-> ZeroInfo]
    /\ directory = NodeIDs
    /\ cancelled = FALSE
    /\ pc = "idle"
    /\ pass = 0
    /\ segments = <<>>
    /\ batches = <<>>
    /\ idx = 1
    /\ info = ZeroInfo
    /\ tasks = <<>>
    /\ mu = 0
    /\ calls = 0
    /\ verifyErr = NoErr
    /\ lastResolve = NoResolve
    /\ now = 1
    /\ catalog \in {<<rows>> : rows \in SUBSET StreamIDs}
    /\ created = NoCall
    /\ rangeProviders = <<>>
    /\ iter = <<>>
    /\ NoMigration

\* a call of MetabaseRangeSplitter.CreateRanges (lines 40-59)
CreateRangesCall(nRanges, batchSize) ==
    /\ created.at = 0
    /\ LET r == CreateRanges(nRanges, batchSize, now)
       IN /\ rangeProviders' = r.providers
          /\ iter' = [i \in DOMAIN r.providers |-> NoIterate]
          /\ created' = [nRanges |-> nRanges, batchSize |-> batchSize,
                         at |-> now, count |-> r.count, err |-> r.err]
    /\ UNCHANGED <<migrationVars, verifyVars, cancelled, now, catalog>>

\* time passes and another writer adds or deletes the rows of stream id k
CatalogWrite(k) ==
    /\ now <= MaxWrites
    /\ now' = now + 1
    /\ catalog' = Append(catalog,
                         IF k \in catalog[now] THEN catalog[now] \ {k}
                                               ELSE catalog[now] \cup {k})
    /\ UNCHANGED <<migrationVars, verifyVars, cancelled, created, rangeProviders, iter>>

\* Iterate lines 62-81: provider i opens its scan and enters the callback
IterateStart(i) ==
    /\ i \in DOMAIN iter
    /\ iter[i].pc = "idle"
    /\ LET opts == IterateOptions(rangeProviders[i])
       IN iter' = [iter EXCEPT ![i].pc = "loop",
                               ![i].opts = opts,
                               ![i].rows = IterateLoopSegments(catalog, opts)]
    /\ UNCHANGED <<migrationVars, verifyVars, cancelled, now, catalog, created,
                   rangeProviders>>

\* Iterate lines 82-86: iterator.Next yields a row, then the context is checked
IterateNext(i) ==
    /\ i \in DOMAIN iter
    /\ iter[i].pc = "loop"
    /\ iter[i].rows # <<>>
    /\ iter' = IF cancelled
               THEN [iter EXCEPT ![i].pc = "done",
                                 ![i].err = Combine(ErrCanceled, NoErr)]
               ELSE [iter EXCEPT ![i].pc = "row"]
    /\ UNCHANGED <<migrationVars, verifyVars, cancelled, now, catalog, created,
                   rangeProviders>>

\* Iterate lines 88-97: the row is appended, and a full batch is passed to fn,
\* which returns fnErr
IterateRow(i, fnErr) ==
    /\ i \in DOMAIN iter
    /\ iter[i].pc = "row"
    /\ LET it == [iter[i] EXCEPT !.segments = Append(@, Head(iter[i].rows)),
                                 !.rows = Tail(@)]
       IN iter' =
            IF BatchFull(Len(it.segments), rangeProviders[i].batchSize)
            THEN LET called == CallFn(it, cancelled, fnErr)
                 IN IF AbortsOnBatch(fnErr)
                    THEN [iter EXCEPT ![i] =
                             [called EXCEPT !.pc = "done",
                                            !.err = Combine(fnErr, NoErr)]]
                    ELSE [iter EXCEPT ![i] =
                             [called EXCEPT !.pc = "loop",
                                            !.segments = <<>>]]
            ELSE [iter EXCEPT ![i] = [it EXCEPT !.pc = "loop"]]
    /\ UNCHANGED <<migrationVars, verifyVars, cancelled, now, catalog, created,
                   rangeProviders>>

\* Iterate lines 82 and 100-105: iterator.Next yields no row, because the rows
\* are exhausted or because the scan gave up on a cancelled context; the rows
\* left in the slice are passed to fn, which returns fnErr
IterateEnd(i, fnErr) ==
    /\ i \in DOMAIN iter
    /\ iter[i].pc = "loop"
    /\ iter[i].rows = <<>> \/ cancelled
    /\ LET scanErr == IF iter[i].rows # <<>> THEN ErrCanceled ELSE NoErr
       IN iter' =
            IF Len(iter[i].segments) > 0
            THEN [iter EXCEPT ![i] =
                     [CallFn(iter[i], cancelled, fnErr) EXCEPT
                         !.pc = "done", !.err = Combine(fnErr, scanErr)]]
            ELSE [iter EXCEPT ![i].pc = "done",
                              ![i].err = Combine(NoErr, scanErr)]
    /\ UNCHANGED <<migrationVars, verifyVars, cancelled, now, catalog, created,
                   rangeProviders>>

\* the context of the run is cancelled
CancelRun ==
    /\ ~cancelled
    /\ cancelled' = TRUE
    /\ iter' = [i \in DOMAIN iter |->
                   IF iter[i].pc \in {"loop", "row"}
                   THEN [iter[i] EXCEPT !.interrupted = TRUE]
                   ELSE iter[i]]
    /\ UNCHANGED <<migrationVars, verifyVars, now, catalog, created, rangeProviders>>

NextRanged ==
    \/ \E nRanges \in MinRanges..MaxRanges, batchSize \in 0..MaxBatchSize :
          CreateRangesCall(nRanges, batchSize)
    \/ \E k \in StreamIDs : CatalogWrite(k)
    \/ \E i \in DOMAIN iter : IterateStart(i)
    \/ \E i \in DOMAIN iter : IterateNext(i)
    \/ \E i \in DOMAIN iter, fnErr \in {NoErr, ErrOnBatch} : IterateRow(i, fnErr)
    \/ \E i \in DOMAIN iter, fnErr \in {NoErr, ErrOnBatch} : IterateEnd(i, fnErr)
    \/ CancelRun

SpecRanged == InitRanged /\ [][NextRanged]_vars

\* ------------------------------------------- the migration metabase
\* metabase.go: the calls of one Metabase, which holds one connection
\* (lines 54-56), so its statements run one after another. Project, bucket
\* and object key are one Location.
Locations == 1..NumLocations
Versions == 0..MaxVersion
ObjectStreams == 0..(NumStreams - 1)

\* ObjectStatus, lines 38-42
Partial == 0
Committed == 1

\* SegmentPosition, lines 18-21
SegmentPositions == [Part : 0..MaxPart, Segment : 0..MaxIndex]

\* SegmentPosition.Encode, line 52: uint64(Part)<<32 | uint64(Segment), kept
\* as its upper and lower 32 bits
Encode(pos) == [hi |-> pos.Part, lo |-> pos.Segment]

\* pgx.ErrNoRows
ErrNoRows == [class |-> "norows", wraps |-> 0]
\* any other error of the connection
ErrConn == [class |-> "conn", wraps |-> 0]

\* wrapf, lines 365-370: nil stays nil, any other error is wrapped with %w
wrapf(err) == IF err # NoErr THEN [err EXCEPT !.wraps = @ + 1] ELSE NoErr

\* errors.Is(err, target) as line 266 uses it: nil is no error at all, and
\* %w keeps the class of what it wraps
Is(err, target) == err # NoErr /\ err.class = target.class

\* QueryRow(...).Scan(&value), lines 245-254 and 260-265: the error of the
\* connection, ErrNoRows when the query selects no row, nil otherwise
Scan(rows, down) ==
    IF down THEN ErrConn ELSE IF rows = {} THEN ErrNoRows ELSE NoErr

\* the query of lines 245-254 and of lines 290-299: the version is not
\* compared
PartialObjects(objs, location, stream) ==
    {o \in objs : /\ o.location = location
                  /\ o.stream_id = stream
                  /\ o.status = Partial}

\* the query of lines 260-265
SegmentRows(segs, stream, pos) ==
    {r \in segs : r.stream_id = stream /\ r.segment_position = Encode(pos)}

\* Metabase.BeginSegment, lines 237-271: what it returns against the tables
\* objs and segs when the connection fails at query failAt (0: never)
BeginSegment(objs, segs, location, stream, pos, failAt) ==
    LET err == Scan(PartialObjects(objs, location, stream), failAt = 1)
    IN IF err # NoErr
       THEN wrapf(err)
       ELSE LET err2 == Scan(SegmentRows(segs, stream, pos), failAt = 2)
            IN IF ~Is(err2, ErrNoRows) THEN wrapf(err2) ELSE NoErr

InitMigration ==
    /\ config = [Check |-> 0, Concurrency |-> 1, MaxOffline |-> 0]
    /\ priorityNodes = {}
    /\ onlineNodes = Aliases
    /\ offlineCount = [a \in Aliases |-> 0]
    /\ aliasMap = Table(NumAliases)
    /\ latestAliases = Table(NumAliases)
    /\ aliasToNodeURL = <<>>
    /\ nodesVersionMap = <<>>
    /\ firstInfo = [a \in Aliases |-> ZeroInfo]
    /\ directory = NodeIDs
    /\ cancelled = FALSE
    /\ pc = "idle"
    /\ pass = 0
    /\ segments = <<>>
    /\ batches = <<>>
    /\ idx = 1
    /\ info = ZeroInfo
    /\ tasks = <<>>
    /\ mu = 0
    /\ calls = 0
    /\ verifyErr = NoErr
    /\ lastResolve = NoResolve
    /\ NoRangedLoop
    /\ NoMigration

\* Metabase.BeginObject, lines 205-225, when its INSERT succeeds: the new row
\* has the default status 0 (line 137). The INSERT fails, and leaves the table
\* as it is, when the primary key of line 153 is taken.
BeginObjectCall(location, version, stream) ==
    /\ \A o \in objectsTable : ~(o.location = location /\ o.version = version)
    /\ objectsTable' = objectsTable \cup
           {[location |-> location, version |-> version, stream_id |-> stream,
             status |-> Partial]}
    /\ UNCHANGED <<segmentsTable, lastBegin, verifyVars, cancelled,
                   rangedVars>>

\* Metabase.CommitSegment, lines 287-325, when it changes the table: the
\* object is partial (lines 290-302) and the primary key of line 176 is free
\* for the INSERT of lines 305-321
CommitSegmentCall(location, stream, pos) ==
    /\ Scan(PartialObjects(objectsTable, location, stream), FALSE) = NoErr
    /\ SegmentRows(segmentsTable, stream, pos) = {}
    /\ segmentsTable' = segmentsTable \cup
           {[stream_id |-> stream, segment_position |-> Encode(pos)]}
    /\ UNCHANGED <<objectsTable, lastBegin, verifyVars, cancelled,
                   rangedVars>>

\* Metabase.CommitObject, lines 336-363, when its UPDATE finds the row
CommitObjectCall(location, version, stream) ==
    LET row == [location |-> location, version |-> version,
                stream_id |-> stream, status |-> Partial]
    IN /\ row \in objectsTable
       /\ objectsTable' = (objectsTable \ {row})
              \cup {[row EXCEPT !.status = Committed]}
       /\ UNCHANGED <<segmentsTable, lastBegin, verifyVars, cancelled,
                   rangedVars>>

\* a call of Metabase.BeginSegment (lines 237-271): it reads the two tables
\* and changes neither
BeginSegmentCall(location, stream, pos, failAt) ==
    /\ lastBegin' =
           [n |-> 1 + (lastBegin.n % 2), Location |-> location,
            StreamID |-> stream, SegmentPosition |-> pos,
            err |-> BeginSegment(objectsTable, segmentsTable, location,
                                 stream, pos, failAt)]
    /\ UNCHANGED <<objectsTable, segmentsTable, verifyVars, cancelled,
                   rangedVars>>

NextMigration ==
    \/ \E location \in Locations, version \in Versions,
          stream \in ObjectStreams :
          BeginObjectCall(location, version, stream)
    \/ \E location \in Locations, stream \in ObjectStreams,
          pos \in SegmentPositions :
          CommitSegmentCall(location, stream, pos)
    \/ \E location \in Locations, version \in Versions,
          stream \in ObjectStreams :
          CommitObjectCall(location, version, stream)
    \/ \E location \in Locations, stream \in ObjectStreams,
          pos \in SegmentPositions, failAt \in 0..2 :
          BeginSegmentCall(location, stream, pos, failAt)

SpecMigration == InitMigration /\ [][NextMigration]_vars

\* ------------------------------------------------------------------ types
TypeOK ==
    /\ pc \in {"idle", "resolve", "go", "wait", "failed"}
    /\ onlineNodes \subseteq Aliases
    /\ mu \in 0..NumAliases
    /\ pass \in 0..2
    /\ now \in 1..(MaxWrites + 1)
    /\ Len(catalog) = now
    /\ \A t \in DOMAIN catalog : catalog[t] \subseteq StreamIDs
    /\ Len(iter) = Len(rangeProviders)
    /\ \A i \in DOMAIN iter : iter[i].pc \in {"idle", "loop", "row", "done"}
    /\ objectsTable \subseteq [location : Locations, version : Versions,
                               stream_id : ObjectStreams,
                               status : {Partial, Committed}]
    /\ segmentsTable \subseteq
           [stream_id : ObjectStreams,
            segment_position : {Encode(pos) : pos \in SegmentPositions}]
    /\ lastBegin.n \in 0..2

\* ----------------------------------------------------------------- claims
\* the goroutines whose piece check (verifier.Verify) is in progress
InPieceCheck == {i \in DOMAIN tasks : tasks[i].pc = "verify"}
\* the goroutines inside the read-modify-write of the health state
InCritical == {i \in DOMAIN tasks : tasks[i].pc = "locked"}
\* goroutine i leaves its critical section in this step
Reconciles(i) == tasks[i].pc = "locked" /\ tasks'[i].pc = "done"
\* goroutine i has reconciled the health state
Reconciled(i) == tasks[i].pc = "done" /\ (tasks[i].err = NoErr \/ HasOffline(tasks[i].err))

\* C1: a Verify call makes at most two VerifyBatches calls, however many
\* segments keep Status.Retry > 0; no third pass is ever started.
C1_AtMostTwoPasses == pass <= 2

\* a Verify call has returned nil after two passes and a segment is still unresolved
C1_Witness ==
    /\ pc = "idle" /\ pass = 2 /\ verifyErr = NoErr
    /\ \E s \in DOMAIN segments : segments[s].Retry > 0

\* C2: the piece checks in progress, and the goroutines of the limiter as a
\* whole, never outnumber config.Concurrency.
C2_ConcurrencyBound ==
    /\ Cardinality(InPieceCheck) <= config.Concurrency
    /\ Cardinality(Running) <= config.Concurrency

\* the loop holds a resolved batch back because every slot is taken by a piece check
C2_Witness ==
    /\ pc = "go" /\ ~cancelled
    /\ Cardinality(InPieceCheck) = config.Concurrency

\* C3: an offline error with zero verified pieces removes the node from the
\* online set in that reconciliation, whatever its strikes and whatever
\* MaxOffline, and leaves the strike counters as they were.
C3_SilentNodeOffline ==
    [][\A i \in DOMAIN tasks :
          (Reconciles(i) /\ HasOffline(tasks[i].err) /\ tasks[i].verifiedCount = 0)
          => /\ batches[i].Alias \notin onlineNodes'
             /\ offlineCount' = offlineCount]_vars

\* a node with one strike, below a maximum of two, was removed for answering nothing
C3_Witness ==
    \E i \in DOMAIN tasks :
        /\ Reconciled(i) /\ HasOffline(tasks[i].err) /\ tasks[i].verifiedCount = 0
        /\ batches[i].Alias \notin onlineNodes
        /\ offlineCount[batches[i].Alias] = 1 /\ tasks[i].prior = 1
        /\ config.MaxOffline = 2

\* C4 as stated: an offline error with some pieces verified adds one strike and
\* removes an online node exactly when the new count has reached MaxOffline.
C4_Original ==
    [][\A i \in DOMAIN tasks :
          (Reconciles(i) /\ HasOffline(tasks[i].err) /\ tasks[i].verifiedCount > 0)
          => LET a == batches[i].Alias
             IN /\ offlineCount' = [offlineCount EXCEPT ![a] = @ + 1]
                /\ a \in onlineNodes =>
                      (a \notin onlineNodes' <=> offlineCount'[a] >= config.MaxOffline)]_vars

\* C4 (amended): an offline error with some pieces verified adds exactly one
\* strike; the node leaves the online set in that step exactly when MaxOffline
\* is positive and the new count has reached it; no other node is touched.
C4_StrikeThreshold ==
    [][\A i \in DOMAIN tasks :
          (Reconciles(i) /\ HasOffline(tasks[i].err) /\ tasks[i].verifiedCount > 0)
          => LET a == batches[i].Alias
                 reached == config.MaxOffline > 0
                            /\ offlineCount'[a] >= config.MaxOffline
             IN /\ offlineCount' = [offlineCount EXCEPT ![a] = @ + 1]
                /\ onlineNodes' = IF reached THEN onlineNodes \ {a}
                                             ELSE onlineNodes]_vars

\* a node was removed by the second strike, which brought it to a maximum of two
C4_Witness ==
    \E i \in DOMAIN tasks :
        /\ Reconciled(i) /\ HasOffline(tasks[i].err) /\ tasks[i].verifiedCount > 0
        /\ config.MaxOffline = 2
        /\ tasks[i].prior = config.MaxOffline - 1
        /\ offlineCount[batches[i].Alias] = config.MaxOffline
        /\ batches[i].Alias \notin onlineNodes

\* C5: a piece check without error takes one strike off a positive counter,
\* leaves a zero counter at zero and the online set alone; no strike counter
\* is ever negative.
C5_StrikesDecay ==
    /\ [](\A a \in Aliases : offlineCount[a] >= 0)
    /\ [][\A i \in DOMAIN tasks :
            (Reconciles(i) /\ tasks[i].err = NoErr)
            => LET a == batches[i].Alias
               IN /\ offlineCount' =
                        [offlineCount EXCEPT ![a] = IF @ > 0 THEN @ - 1 ELSE 0]
                  /\ onlineNodes' = onlineNodes]_vars

\* a successful batch took the one strike of its node away
C5_Witness ==
    \E i \in DOMAIN tasks :
        /\ Reconciled(i) /\ tasks[i].err = NoErr
        /\ tasks[i].prior = 1
        /\ offlineCount[batches[i].Alias] = 0

\* C6: when GetNodeInfo fails for a batch, VerifyBatches and Verify return an
\* error, and neither that batch nor any batch after it gets a piece check.
C6_ResolveFailureAborts ==
    (lastResolve.alias # 0 /\ lastResolve.err # NoErr)
    => /\ pc = "failed"
       /\ verifyErr # NoErr
       /\ batches[idx].Alias = lastResolve.alias
       /\ \A i \in idx..Len(tasks) : tasks[i].pc = "none"

\* the first of two batches could not be resolved and the second was never started
C6_Witness ==
    /\ pc = "failed" /\ lastResolve.err # NoErr
    /\ idx < Len(batches)
    /\ \A i \in idx..Len(tasks) : tasks[i].pc = "none"

\* C7: whenever VerifyBatches has returned, with nil or with a resolution
\* error, none of the goroutines it started is still running.
C7_AllTasksJoined == pc \in {"idle", "failed"} => Running = {}

\* C8: an alias that is not cached and not in the local table, but in the
\* latest table, is resolved by one fetch that replaces the local table, and
\* GetNodeInfo returns the directory's address and version without error.
C8_RefreshResolves ==
    (/\ lastResolve.alias # 0
     /\ ~lastResolve.cached /\ ~lastResolve.local /\ lastResolve.inLatest
     /\ lastResolve.fetchErr = NoErr /\ lastResolve.inDirectory)
    => LET d == DossierOf(NodeOf(lastResolve.alias))
       IN /\ lastResolve.err = NoErr
          /\ lastResolve.fetches = 1
          /\ lastResolve.refreshed
          /\ lastResolve.info = [Version |-> d.Version,
                                 NodeURL |-> [ID |-> d.Id, Address |-> d.Address]]

\* C9: an alias that cannot be resolved makes convertAliasToNodeURL and
\* GetNodeInfo return an error, never an empty node URL with a nil error.
C9_UnresolvableIsError ==
    (/\ lastResolve.alias # 0
     /\ ~lastResolve.cached
     /\ \/ ~lastResolve.local /\ ~lastResolve.inLatest
        \/ ~lastResolve.local /\ lastResolve.fetchErr # NoErr
        \/ ~lastResolve.inDirectory)
    => /\ lastResolve.convErr # NoErr
       /\ lastResolve.err # NoErr
       /\ ~(lastResolve.convURL = ZeroURL /\ lastResolve.convErr = NoErr)

\* C10: at most one goroutine is inside a read-modify-write of the health
\* state, and it is the holder of the mutex.
C10_MutualExclusion ==
    /\ Cardinality(InCritical) <= 1
    /\ \A i \in InCritical : mu = i

\* one goroutine is inside the critical section while another waits for the mutex
C10_Witness ==
    \E i, j \in DOMAIN tasks :
        /\ i # j
        /\ tasks[i].pc = "locked"
        /\ tasks[j].pc = "lock"

\* C11: the mutex is held by no goroutine whose piece check is in flight: its
\* holder has its piece check behind it and is inside its reconciliation, and a
\* goroutine that has ended, on any branch, has released it.
C11_NoLockAcrossPieceCheck ==
    /\ mu # 0 => (mu \in DOMAIN tasks /\ tasks[mu].pc = "locked")
    /\ \A i \in DOMAIN tasks :
          tasks[i].pc \in {"none", "skipped", "verify", "lock", "done"} => mu # i

\* one goroutine reconciles an offline error under the mutex while the piece
\* check of another is in flight
C11_Witness ==
    \E i, j \in DOMAIN tasks :
        /\ tasks[i].pc = "verify"
        /\ tasks[j].pc = "locked" /\ mu = j
        /\ HasOffline(tasks[j].err)

C13_OfflineNodeSkipped ==
    [][(pass = 1 /\ pass' = 2)
       => \A b \in DOMAIN batches' : batches'[b].Alias \in onlineNodes]_vars

\* C14: Verify of an empty segment list makes no batch, resolves no alias,
\* starts no piece check, leaves the health state and the resolver's caches as
\* they were and returns nil.
C14_EmptyInput ==
    [][(segments' = <<>> /\ calls' > 0)
       => /\ batches' = <<>> /\ tasks' = <<>>
          /\ pc' \in {"wait", "idle"}
          /\ verifyErr' = NoErr
          /\ lastResolve' = lastResolve
          /\ UNCHANGED <<healthVars, resolverVars>>]_vars

\* Verify of an empty segment list has returned nil after one pass without batches
C14_Witness ==
    /\ pc = "idle" /\ calls > 0 /\ pass = 1
    /\ segments = <<>> /\ batches = <<>>
    /\ verifyErr = NoErr

\* C15: pass two is entered, and its retry list built, in a state where every
\* goroutine of pass one has ended, so that no piece check of pass two starts
\* before every goroutine of pass one has finished.
C15_PassTwoAfterJoin ==
    [][(pass = 1 /\ pass' = 2)
       => /\ \A i \in DOMAIN tasks : tasks[i].pc \in {"done", "skipped"}
          /\ \A i \in DOMAIN tasks' : tasks'[i].pc = "none"]_vars

\* a piece check of pass two is in flight
C15_Witness ==
    /\ pass = 2
    /\ \E i \in DOMAIN tasks : tasks[i].pc = "verify"

\* goroutine i ends in this step
Ends(i) == tasks[i].pc \in {"verify", "locked"} /\ tasks'[i].pc = "done"

\* C20 as stated: a piece check that ends without an offline error, with
\* success or with an error of another class, takes one strike off a positive
\* counter and leaves a zero counter at zero.
C20_Original ==
    [][\A i \in DOMAIN tasks :
          (Ends(i) /\ ~HasOffline(tasks'[i].err))
          => offlineCount' =
                [offlineCount EXCEPT ![batches[i].Alias] =
                    IF @ > 0 THEN @ - 1 ELSE 0]]_vars

\* C20 (amended): a piece check that ends without any error takes one strike
\* off a positive counter and leaves a zero counter at zero; one that ends
\* with an error outside the offline class leaves every counter as it was.
C20_NonOfflineOutcome ==
    [][\A i \in DOMAIN tasks :
          (Ends(i) /\ ~HasOffline(tasks'[i].err))
          => /\ offlineCount' =
                  IF tasks'[i].err = NoErr
                  THEN [offlineCount EXCEPT ![batches[i].Alias] =
                           IF @ > 0 THEN @ - 1 ELSE 0]
                  ELSE offlineCount
             /\ onlineNodes' = onlineNodes]_vars

\* a piece check ended with an error of another class for a node that has a strike
C20_Witness ==
    \E i \in DOMAIN tasks :
        /\ tasks[i].pc = "done" /\ tasks[i].err = ErrOther
        /\ offlineCount[batches[i].Alias] > 0

RECURSIVE Concat(_)
\* the batches of a sequence one after the other
Concat(bs) == IF bs = <<>> THEN <<>> ELSE Head(bs) \o Concat(Tail(bs))

\* the rows of the catalog, as of the provider's timestamp, that lie between
\* the bounds of the provider's range, in key order
RowsOfRange(cat, provider) ==
    LET g == provider.uuidRange
    IN InKeyOrder({k \in RowsAsOf(cat, provider.asOfSystemTime) :
                      /\ g.Start = Nil \/ k >= g.Start[1]
                      /\ g.End = Nil \/ k < g.End[1]})

\* C16: with batchSize >= 1 no batch passed to fn is empty or longer than
\* batchSize, and every batch before the last has exactly batchSize rows; when
\* Iterate ends without a failed callback and without a cancellation it returns
\* nil and the batches, one after the other, are the rows of the provider's
\* range in key order, each once.
C16_BatchesPartitionRows ==
    \A i \in DOMAIN iter :
        LET d == iter[i].delivered
            size == rangeProviders[i].batchSize
        IN size >= 1 =>
              /\ \A j \in DOMAIN d : Len(d[j]) >= 1 /\ Len(d[j]) <= size
              /\ \A j \in 1..(Len(d) - 1) : Len(d[j]) = size
              /\ (iter[i].pc = "done" /\ iter[i].failedAt = 0 /\ ~cancelled)
                 => /\ iter[i].err = NoErr
                    /\ Concat(d) = RowsOfRange(catalog, rangeProviders[i])

\* an Iterate has returned nil after a full batch and a shorter last batch,
\* with the catalog written to since the providers were created
C16_Witness ==
    \E i \in DOMAIN iter :
        /\ iter[i].pc = "done" /\ iter[i].err = NoErr
        /\ iter[i].failedAt = 0 /\ ~cancelled
        /\ Len(iter[i].delivered) >= 2
        /\ Len(iter[i].delivered[Len(iter[i].delivered)])
              < rangeProviders[i].batchSize
        /\ now > created.at

\* C17: once fn has returned an error, Iterate has ended with that error and
\* the failed call was its last call of fn; no row is passed to fn twice.
C17_OnBatchErrorAborts ==
    \A i \in DOMAIN iter :
        LET rows == Concat(iter[i].delivered)
        IN /\ \A a, b \in DOMAIN rows : a # b => rows[a] # rows[b]
           /\ iter[i].failedAt # 0
              => /\ iter[i].pc = "done"
                 /\ iter[i].err = ErrOnBatch
                 /\ Len(iter[i].delivered) = iter[i].failedAt

\* fn failed on a full batch while the iterator had rows left, which were
\* never passed on
C17_Witness ==
    \E i \in DOMAIN iter :
        /\ iter[i].failedAt # 0 /\ iter[i].pc = "done"
        /\ iter[i].rows # <<>>
        /\ ~cancelled

\* C18: an Iterate during which the context was cancelled makes no call of fn
\* after the cancellation, and returns the cancellation error.
C18_NoCallAfterCancel ==
    \A i \in DOMAIN iter :
        iter[i].interrupted
        => /\ ~iter[i].lateCall
           /\ iter[i].pc = "done" => iter[i].err = ErrCanceled

\* C19: CreateRanges returns one provider per range of CreateUUIDRanges, in
\* that order, all with the time of the call; every Iterate hands the scan
\* that time and the bounds of its provider's range, a nil bound as the zero
\* stream id, which no range has as a bound.
C19_OneSnapshotPerCall ==
    /\ created.at # 0
       => LET r == CreateUUIDRanges(Uint32(created.nRanges))
          IN /\ Len(rangeProviders) = Len(r.ranges)
             /\ \A i \in DOMAIN rangeProviders :
                   /\ rangeProviders[i].uuidRange = r.ranges[i]
                   /\ rangeProviders[i].asOfSystemTime = created.at
    /\ \A i \in DOMAIN iter :
          iter[i].pc # "idle"
          => LET o == iter[i].opts
                 g == rangeProviders[i].uuidRange
             IN /\ o.AsOfSystemTime = created.at
                /\ \/ g.Start = Nil /\ o.StartStreamID = ZeroUUID
                   \/ /\ g.Start # Nil
                      /\ g.Start[1] # ZeroUUID
                      /\ o.StartStreamID = g.Start[1]
                /\ \/ g.End = Nil /\ o.EndStreamID = ZeroUUID
                   \/ /\ g.End # Nil
                      /\ g.End[1] # ZeroUUID
                      /\ o.EndStreamID = g.End[1]

\* two providers of one call scan side by side, the second opened after a
\* later write to the catalog
C19_Witness ==
    /\ Len(iter) = 2
    /\ iter[1].pc = "row" /\ iter[2].pc = "loop"
    /\ now > created.at

\* C24: the step into pass two leaves the segments with Status.Retry = 0 as
\* they are and gives every segment with Status.Retry > 0 its piece list in
\* reverse order without the pieces of priority nodes; the batches of pass two
\* hold those segments only, each once per piece left on the node of the batch.
C24_RetryPieceLists ==
    [][(pass = 1 /\ pass' = 2)
       => /\ \A s \in DOMAIN segments :
                LET old == segments[s].AliasPieces
                    back == [i \in 1..Len(old) |-> old[Len(old) + 1 - i]]
                    left(p) == p.Alias \notin priorityNodes
                IN segments'[s].AliasPieces =
                      IF segments[s].Retry > 0 THEN SelectSeq(back, left)
                                               ELSE old
          /\ \A b \in DOMAIN batches' :
                \A s \in DOMAIN segments :
                   Cardinality({j \in DOMAIN batches'[b].Items :
                                   batches'[b].Items[j] = s})
                   = IF segments[s].Retry > 0
                     THEN Cardinality({k \in DOMAIN segments'[s].AliasPieces :
                             segments'[s].AliasPieces[k].Alias = batches'[b].Alias})
                     ELSE 0]_vars

\* pass two runs on a segment whose two pieces are in reverse order, next to a
\* segment whose pieces are in the order of the input
C24_Witness ==
    /\ pass = 2
    /\ \E s, t \in DOMAIN segments :
          /\ Len(segments[s].AliasPieces) = 2
          /\ segments[s].AliasPieces[1].Number = 1
          /\ segments[s].AliasPieces[2].Number = 0
          /\ Len(segments[t].AliasPieces) = 2
          /\ segments[t].AliasPieces[1].Number = 0

\* C25: a piece check that returns an error outside the offline class ends its
\* goroutine on the spot, with the online set, every strike counter and the
\* mutex as they were.
C25_OtherErrorLeavesHealth ==
    [][\A i \in DOMAIN tasks :
          (/\ tasks[i].pc = "verify" /\ tasks'[i].pc # "verify"
           /\ tasks'[i].err # NoErr /\ ~HasOffline(tasks'[i].err))
          => /\ tasks'[i].pc = "done"
             /\ onlineNodes' = onlineNodes
             /\ offlineCount' = offlineCount
             /\ mu' = mu]_vars

\* a piece check that verified nothing ended with an error of another class,
\* and its node is online and without a strike
C25_Witness ==
    \E i \in DOMAIN tasks :
        /\ tasks[i].pc = "done" /\ tasks[i].err = ErrOther
        /\ tasks[i].verifiedCount = 0
        /\ batches[i].Alias \in onlineNodes
        /\ offlineCount[batches[i].Alias] = 0

\* C27: no step adds a node to the online set; a piece check without error for
\* a node outside the online set takes a strike off and leaves the node outside.
C27_OnlineSetShrinks ==
    [][/\ onlineNodes' \subseteq onlineNodes
       /\ \A i \in DOMAIN tasks :
             (/\ Reconciles(i) /\ tasks[i].err = NoErr
              /\ batches[i].Alias \notin onlineNodes)
             => /\ batches[i].Alias \notin onlineNodes'
                /\ offlineCount'[batches[i].Alias] =
                      IF offlineCount[batches[i].Alias] > 0
                      THEN offlineCount[batches[i].Alias] - 1 ELSE 0]_vars

\* a node that pass one removed had a piece check without error in pass two,
\* which took its strike away and left it outside the online set
C27_Witness ==
    \E i \in DOMAIN tasks :
        /\ pass = 2
        /\ Reconciled(i) /\ tasks[i].err = NoErr
        /\ batches[i].Alias \notin onlineNodes
        /\ tasks[i].prior = 1
        /\ offlineCount[batches[i].Alias] = 0

\* C23: a GetNodeInfo call for an alias that an earlier call resolved without
\* error returns without error the NodeInfo of that earlier call, and makes
\* no fetch of the alias table and no lookup in the node directory.
C23_Memoized ==
    [][\A a \in Aliases :
          (/\ firstInfo[a] # ZeroInfo
           /\ lastResolve' # lastResolve
           /\ lastResolve'.alias = a)
          => /\ lastResolve'.err = NoErr
             /\ lastResolve'.info = firstInfo[a]
             /\ lastResolve'.fetches = 0
             /\ lastResolve'.lookups = 0
             /\ firstInfo' = firstInfo]_vars

\* a call was answered from the caches with the first answer, after the node
\* directory had lost the node
C23_Witness ==
    /\ lastResolve.alias # 0
    /\ lastResolve.cached
    /\ lastResolve.err = NoErr
    /\ lastResolve.fetches = 0 /\ lastResolve.lookups = 0
    /\ lastResolve.info = firstInfo[lastResolve.alias]
    /\ lastResolve.info # ZeroInfo
    /\ NodeOf(lastResolve.alias) \notin directory

\* stream id k lies in the range g
InRange(k, g) ==
    /\ g.Start = Nil \/ k >= g.Start[1]
    /\ g.End = Nil \/ k < g.End[1]

\* C21: for nRanges >= 1 CreateRanges returns nRanges providers whose ranges
\* go from no start bound to no end bound, each ending where the next starts,
\* at bounds that ascend, so that every stream id lies in exactly one range.
C21_RangesCoverSpace ==
    (created.at # 0 /\ created.nRanges >= 1)
    => LET n == Len(rangeProviders)
           g(i) == rangeProviders[i].uuidRange
       IN /\ n = created.nRanges
          /\ g(1).Start = Nil
          /\ g(n).End = Nil
          /\ \A i \in 1..(n - 1) : g(i).End # Nil /\ g(i).End = g(i + 1).Start
          /\ \A i \in 1..(n - 2) : g(i).End[1] < g(i + 1).End[1]
          /\ \A k \in StreamIDs :
                Cardinality({i \in 1..n : InRange(k, g(i))}) = 1

\* three providers were returned, with two bounds between their ranges
C21_Witness ==
    /\ created.at # 0 /\ created.err = NoErr
    /\ created.nRanges = 3
    /\ Len(rangeProviders) = 3
    /\ rangeProviders[2].uuidRange.Start # Nil
    /\ rangeProviders[2].uuidRange.End # Nil

\* C22: CreateRanges returns an error and no provider for nRanges <= 0, and
\* nRanges providers without error for nRanges >= 1.
C22_RangeCount ==
    created.at # 0
    => /\ created.nRanges <= 0
          => /\ created.err # NoErr
             /\ created.count = Uint32(0)
             /\ rangeProviders = <<>>
       /\ created.nRanges >= 1
          => /\ created.err = NoErr
             /\ created.count = [hi |-> 0, lo |-> created.nRanges]
             /\ Len(rangeProviders) = created.nRanges

\* C26: BeginSegment fails whenever a segment with the same stream id and
\* encoded position is in the segments table, and succeeds only when the
\* object is there in partial status and no such segment is.
C26_BeginSegmentGuards ==
    [][lastBegin' # lastBegin
       => LET call == lastBegin'
              exists == SegmentRows(segmentsTable, call.StreamID,
                                    call.SegmentPosition) # {}
              partial == PartialObjects(objectsTable, call.Location,
                                        call.StreamID) # {}
          IN /\ exists => call.err # NoErr
             /\ call.err = NoErr => partial /\ ~exists]_vars

====
